---- MODULE Spec2Model ----
(***************************************************************************)
(* Model of package requester (src/requester/requester.go): the load       *)
(* controller Work.Run / Work.finish, the one-time Init, the worker pool   *)
(* runWorkers / runWorker, the request executor makeRequest and the        *)
(* buffered result channel b.results that carries results to the reporter. *)
(*                                                                         *)
(* Goroutines are interleaved at the granularity of the statements that    *)
(* touch shared state (channel operations, the WaitGroup, the context,     *)
(* sync.Once).  The reporter (runReporter, report.done, report.finalize)   *)
(* lives in a file of the package that is not part of src/; it is modelled *)
(* from the specification: it drains the channel until it is closed and    *)
(* then signals done.                                                      *)
(***************************************************************************)
EXTENDS Integers, Sequences, FiniteSets, TLC

\* ------------------------------------------------------------------ bounds
MaxN == 3            \* largest total request count N explored
MaxC == 2            \* largest concurrency level C explored
MaxInitCalls == 1    \* explicit Init() callers besides Run's own call
MaxDistN == 12       \* largest N of the share-distribution specification
MaxDistC == 5        \* largest C of the share-distribution specification
MaxTicks == 3        \* ticks of one ticker, where dropped ticks are counted

\* ------------------------------------------------------- program constants
maxResult == 32000000
perWorkerBuf == 1000

Workers == 0 .. ((IF MaxC < MaxDistC THEN MaxDistC ELSE MaxC) - 1)
Callers == 0 .. MaxInitCalls      \* caller 0 is the b.Init() inside Run
StatusCodes == {200}
BodySizes == {7}

VARIABLES
    Request,      \* b.Request # nil
    RequestFunc,  \* b.RequestFunc # nil
    N,            \* b.N
    C,            \* b.C
    QPS,          \* b.QPS
    DisableRedirects, \* b.DisableRedirects
    client,       \* runWorkers' http.Client: [made, CheckRedirect, writes]
    trace,        \* one makeRequest's clock, mutex, timing variables and hooks
    initOnce,     \* b.initOnce: [done]; its mutex is held only inside Init_Slow
    initPc,       \* position of every Init caller inside initOnce.Do
    results,      \* b.results: [made, cap, buf, closed]
    makeCount,    \* number of make(chan *result, ...) executed so far
    pc,           \* position of the goroutine running Run
    i,            \* loop index of runWorkers' spawn loop
    left,         \* runWorkers' left
    wg,           \* the WaitGroup counter
    ctxDone,      \* the caller's ctx is cancelled
    sctxDone,     \* Run's cancel() of the derived sctx was called
    spinner,      \* the progress indicator: "off", "on", "stopped"
    wpc,          \* position of every worker goroutine
    wi,           \* runWorker's loop index i, per worker
    wn,           \* runWorker's n (the share), per worker
    wres,         \* the result a worker's current makeRequest is building
    throttle,     \* per worker: -1 nil channel, else ticks buffered (0 or 1)
    ticks,        \* per worker: the ticks its ticker has emitted so far
    report,       \* the reporter: [started, received, done, finalized]
    panicked      \* "none" or the runtime panic that ended the process

vars == << Request, RequestFunc, N, C, QPS, DisableRedirects, client, trace,
           ticks, initOnce,
           initPc, results, makeCount,
           pc, i, left, wg, ctxDone, sctxDone, spinner, wpc, wi, wn, wres,
           throttle, report, panicked >>

workVars == << Request, RequestFunc, N, QPS, DisableRedirects >>
ctlVars == << pc, i, left >>
workerVars == << wpc, wi, wn, wres, throttle >>

min(a, b) == IF a < b THEN a ELSE b

\* A result: err, statusCode and contentLength are fields of the source's
\* result; w and k (which worker, which of its attempts) identify the attempt
\* that produced it, late records that the attempt began after ctx was
\* cancelled and cut that ctx was cancelled before the result was sent.
NoResult == [w |-> -1, k |-> -1, err |-> FALSE, statusCode |-> 0,
             contentLength |-> 0, late |-> FALSE, cut |-> FALSE]

NilChan == [made |-> FALSE, cap |-> 0, buf |-> << >>, closed |-> FALSE]

\* The locals of one makeRequest as it is entered: every timing variable has
\* its zero value and mu is unlocked.  clock is what now() returns; main, dial,
\* wloop and rloop are the positions of the goroutine that called makeRequest
\* and of the transport's goroutines that run the hooks; t, wt and rt are the
\* local t of makeRequest, of WroteRequest and of GotFirstResponseByte; asked
\* and got tell that GetConn and GotConn have run; bare
\* collects the timing variables accessed without mu; res holds the timing
\* fields of the result that was built.
NoTimes == [built |-> FALSE, err |-> FALSE, offset |-> 0, duration |-> 0,
            connDuration |-> 0, dnsDuration |-> 0, reqDuration |-> 0,
            resDuration |-> 0, delayDuration |-> 0]

newTrace(c) ==
    [clock |-> c, mu |-> "free",
     main |-> "begin", dial |-> "none", wloop |-> "none", rloop |-> "none",
     dnsStart |-> 0, connStart |-> 0, resStart |-> 0, reqStart |-> 0,
     delayStart |-> 0, dnsDuration |-> 0, connDuration |-> 0, resDuration |-> 0,
     reqDuration |-> 0, delayDuration |-> 0,
     s |-> 0, t |-> 0, wt |-> 0, rt |-> 0, asked |-> FALSE, got |-> FALSE,
     bare |-> {}, res |-> NoTimes]

NoTrace == newTrace(0)

\* No client yet; writes counts the assignments made to the client's fields
\* after &http.Client{...} built it.
NoClient == [made |-> FALSE, CheckRedirect |-> "nil", writes |-> 0]

Alive == panicked = "none"

\* ------------------------------------------------------------------- Init
\* A Work as its caller configures it, before Init and Run.  The redirect
\* option is left unset here; the shared-client specification sets it.
Init ==
    /\ Request \in BOOLEAN
    /\ RequestFunc \in BOOLEAN
    /\ Request \/ RequestFunc
    /\ N \in 0 .. MaxN
    /\ C \in 0 .. MaxC
    /\ QPS \in {0, 1}
    /\ DisableRedirects = FALSE
    /\ client = NoClient
    /\ trace = NoTrace
    /\ initOnce = [done |-> FALSE]
    /\ initPc = [p \in Callers |-> "idle"]
    /\ results = NilChan
    /\ makeCount = 0
    /\ pc = "idle"
    /\ i = 0
    /\ left = 0
    /\ wg = 0
    /\ ctxDone = FALSE
    /\ sctxDone = FALSE
    /\ spinner = "off"
    /\ wpc = [w \in Workers |-> "none"]
    /\ wi = [w \in Workers |-> 0]
    /\ wn = [w \in Workers |-> 0]
    /\ wres = [w \in Workers |-> NoResult]
    /\ throttle = [w \in Workers |-> -1]
    /\ ticks = [w \in Workers |-> 0]
    /\ report = [started |-> FALSE, received |-> << >>, done |-> FALSE,
                 finalized |-> FALSE]
    /\ panicked = "none"

\* ------------------------------------------------- the caller, before Run
\* The exported field C is assigned by the caller while the Work is being
\* configured: before Run, and not while an Init call is running.
SetC(c) ==
    /\ Alive
    /\ pc = "idle"
    /\ \A p \in Callers : initPc[p] # "slow"
    /\ c # C
    /\ C' = c
    /\ UNCHANGED << workVars, ticks, trace, client, initOnce, initPc, results,
                    makeCount, ctlVars, wg, ctxDone, sctxDone, spinner,
                    workerVars, report, panicked >>

\* An indicator whose context is not derived from the caller's ctx.
onCtxDone_Detached(sp) == sp

\* What cancelling ctx does to the indicator: sctx is derived from ctx
\* (context.WithCancel(ctx)), so an indicator that is running stops.
onCtxDone(sp) == IF sp = "on" THEN "stopped" ELSE sp

\* The caller cancels the context it passed to Run.
Cancel ==
    /\ Alive
    /\ ~ctxDone
    /\ ctxDone' = TRUE
    /\ spinner' = onCtxDone(spinner)
    /\ UNCHANGED << workVars, ticks, trace, client, C, initOnce, initPc,
                    results, makeCount, ctlVars, wg, sctxDone, workerVars,
                    report, panicked >>

\* ------------------------------------------------------- Work.Init (Once)
\* The function handed to initOnce.Do: b.results = make(chan *result, ...).
makeResults == [made |-> TRUE, cap |-> min(C * perWorkerBuf, maxResult),
                buf |-> << >>, closed |-> FALSE]

\* May caller p be inside Init now?  Caller 0 is Run at its b.Init() line;
\* the explicit callers call Init on a Work that Run has not been started on.
InitCallable(p) == IF p = 0 THEN pc = "init" ELSE pc = "idle"

\* initOnce.Do, fast path: the atomic load of done.  An explicit caller whose
\* call has returned may call Init again.
Init_Enter(p) ==
    /\ Alive
    /\ initPc[p] = "idle" \/ (p # 0 /\ initPc[p] = "ret")
    /\ InitCallable(p)
    /\ initPc' = [initPc EXCEPT ![p] = IF initOnce.done THEN "ret" ELSE "slow"]
    /\ UNCHANGED << workVars, ticks, trace, client, C, initOnce, results,
                    makeCount, ctlVars, wg, ctxDone, sctxDone, spinner,
                    workerVars, report, panicked >>

\* A slow path that does not look at done again.
OnceRuns_NoRecheck == TRUE

\* What the slow path does under the mutex when done is still unset.
OnceRuns == ~initOnce.done

\* initOnce.Do, slow path: lock the mutex, re-check done, run the function,
\* set done, unlock.  The mutex makes the whole of it one step.
Init_Slow(p) ==
    /\ Alive
    /\ initPc[p] = "slow"
    /\ IF OnceRuns
         THEN /\ results' = makeResults
              /\ makeCount' = makeCount + 1
              /\ initOnce' = [initOnce EXCEPT !.done = TRUE]
         ELSE UNCHANGED << results, makeCount, initOnce >>
    /\ initPc' = [initPc EXCEPT ![p] = "ret"]
    /\ UNCHANGED << workVars, ticks, trace, client, C, ctlVars, wg, ctxDone,
                    sctxDone, spinner, workerVars, report, panicked >>

\* --------------------------------------------------------------- Work.Run
\* Run, up to b.Init(): the derived context and the progress indicator,
\* spinner.Process(sctx), which stops at once when ctx is cancelled already.
\* Run is called on a configured Work: C >= 1 workers, N >= 0 requests.
Run_Begin ==
    /\ Alive
    /\ pc = "idle"
    /\ C >= 1
    /\ pc' = "init"
    /\ spinner' = IF ctxDone THEN onCtxDone("on") ELSE "on"
    /\ UNCHANGED << workVars, ticks, trace, client, C, initOnce, initPc,
                    results, makeCount, i, left, wg, ctxDone, sctxDone,
                    workerVars, report, panicked >>

\* The reporter's goroutine is not started.
startReporter_Missing(r) == r

\* go func() { runReporter(b.report) }()
startReporter(r) == [r EXCEPT !.started = TRUE]

\* b.start = now(); b.report = newReport(...); the reporter's goroutine.
Run_StartReporter ==
    /\ Alive
    /\ pc = "init"
    /\ initPc[0] = "ret"
    /\ report' = startReporter(report)
    /\ pc' = "workers"
    /\ UNCHANGED << workVars, ticks, trace, client, C, initOnce, initPc,
                    results, makeCount, i, left, wg, ctxDone, sctxDone,
                    spinner, workerVars, panicked >>

\* runWorkers, before the spawn loop: wg.Add(b.C), the host name read from
\* b.Request.Host (a nil b.Request is a nil-pointer dereference), the client.
\* One worker too few added to the WaitGroup.
wgAdd_OffByOne == C - 1

\* wg.Add(b.C)
wgAdd == C

\* client := &http.Client{Transport: tr, Timeout: ...}: CheckRedirect is nil.
newClient == [made |-> TRUE, CheckRedirect |-> "nil", writes |-> 0]

runWorkers_Setup ==
    /\ Alive
    /\ pc = "workers"
    /\ wg' = wg + wgAdd
    /\ IF Request
         THEN /\ pc' = "spawn"
              /\ left' = N
              /\ i' = 0
              /\ client' = newClient
              /\ UNCHANGED panicked
         ELSE /\ panicked' = "nil pointer dereference"
              /\ UNCHANGED << pc, left, i, client >>
    /\ UNCHANGED << workVars, ticks, trace, C, initOnce, initPc, results,
                    makeCount, ctxDone, sctxDone, spinner, workerVars,
                    report >>

\* A division by b.C instead of b.C - i.
share_NoIndex(l, c, j) == l \div c

\* The share handed to worker i by the spawn loop.
share(l, c, j) == l \div (c - j)

\* go func(n int) { b.runWorker(ctx, client, n); wg.Done() }(n)
spawn(w, n) ==
    /\ wpc' = [wpc EXCEPT ![w] = "start"]
    /\ wn' = [wn EXCEPT ![w] = n]
    /\ wi' = [wi EXCEPT ![w] = 0]

\* One iteration of: for i := 0; i < b.C-1; i++ { n := left / (b.C - i); ... }
runWorkers_Spawn ==
    /\ Alive
    /\ pc = "spawn"
    /\ i < C - 1
    /\ spawn(i, share(left, C, i))
    /\ left' = left - share(left, C, i)
    /\ i' = i + 1
    /\ UNCHANGED << workVars, ticks, trace, client, C, initOnce, initPc,
                    results, makeCount, pc, wg, ctxDone, sctxDone, spinner,
                    wres, throttle, report, panicked >>

\* The last worker takes what is left.
runWorkers_SpawnLast ==
    /\ Alive
    /\ pc = "spawn"
    /\ ~(i < C - 1)
    /\ spawn(C - 1, left)
    /\ pc' = "wait"
    /\ UNCHANGED << workVars, ticks, trace, client, C, initOnce, initPc,
                    results, makeCount, i, left, wg, ctxDone, sctxDone,
                    spinner, wres, throttle, report, panicked >>

\* A wait that does not wait.
WaitReturns_Early == TRUE

\* wg.Wait() returns when the counter is zero.
WaitReturns == wg = 0

runWorkers_Wait ==
    /\ Alive
    /\ pc = "wait"
    /\ WaitReturns
    /\ pc' = "cancel"
    /\ UNCHANGED << workVars, ticks, trace, client, C, initOnce, initPc,
                    results, makeCount, i, left, wg, ctxDone, sctxDone,
                    spinner, workerVars, report, panicked >>

\* cancel() of the indicator's context, then the cursor is restored.
Run_Cancel ==
    /\ Alive
    /\ pc = "cancel"
    /\ sctxDone' = TRUE
    /\ spinner' = "stopped"
    /\ pc' = "close"
    /\ UNCHANGED << workVars, ticks, trace, client, C, initOnce, initPc,
                    results, makeCount, i, left, wg, ctxDone, workerVars,
                    report, panicked >>

\* ------------------------------------------------------------ Work.finish
\* close(b.results); total := now() - b.start
finish_Close ==
    /\ Alive
    /\ pc = "close"
    /\ IF results.made /\ ~results.closed
         THEN /\ results' = [results EXCEPT !.closed = TRUE]
              /\ pc' = "waitdone"
              /\ UNCHANGED panicked
         ELSE /\ panicked' = "close of nil or closed channel"
              /\ UNCHANGED << results, pc >>
    /\ UNCHANGED << workVars, ticks, trace, client, C, initOnce, initPc,
                    makeCount, i, left, wg, ctxDone, sctxDone, spinner,
                    workerVars, report >>

\* A finish that does not wait for the reporter.
DoneReceived_NoWait == TRUE

\* What <-b.report.done waits for.
DoneReceived == report.done

\* <-b.report.done
finish_WaitDone ==
    /\ Alive
    /\ pc = "waitdone"
    /\ DoneReceived
    /\ pc' = "finalize"
    /\ UNCHANGED << workVars, ticks, trace, client, C, initOnce, initPc,
                    results, makeCount, i, left, wg, ctxDone, sctxDone,
                    spinner, workerVars, report, panicked >>

\* b.report.finalize(total)
finish_Finalize ==
    /\ Alive
    /\ pc = "finalize"
    /\ report' = [report EXCEPT !.finalized = TRUE]
    /\ pc' = "finished"
    /\ UNCHANGED << workVars, ticks, trace, client, C, initOnce, initPc,
                    results, makeCount, i, left, wg, ctxDone, sctxDone,
                    spinner, workerVars, panicked >>

\* -------------------------------------------------------- Work.runWorker
\* runWorker, before its loop: the worker's own ticker when QPS > 0, then
\* the test of b.DisableRedirects.
runWorker_Start(w) ==
    /\ Alive
    /\ wpc[w] = "start"
    /\ throttle' = [throttle EXCEPT ![w] = IF QPS > 0 THEN 0 ELSE -1]
    /\ wpc' = [wpc EXCEPT ![w] = IF DisableRedirects THEN "redirect"
                                                      ELSE "loop"]
    /\ UNCHANGED << workVars, ticks, trace, client, C, initOnce, initPc,
                    results, makeCount, ctlVars, wg, ctxDone, sctxDone,
                    spinner, wi, wn, wres, report, panicked >>

\* client.CheckRedirect = func(...) error { return http.ErrUseLastResponse }:
\* worker w assigns a field of the client it shares with the other workers,
\* holding no lock.
runWorker_SetRedirect(w) ==
    /\ Alive
    /\ wpc[w] = "redirect"
    /\ client' = [client EXCEPT !.CheckRedirect = "ErrUseLastResponse",
                                !.writes = @ + 1]
    /\ wpc' = [wpc EXCEPT ![w] = "loop"]
    /\ UNCHANGED << workVars, ticks, trace, C, initOnce, initPc, results,
                    makeCount, ctlVars, wg, ctxDone, sctxDone, spinner, wi, wn,
                    wres, throttle, report, panicked >>

\* The ticks buffered after one more tick: the channel of time.Tick has one
\* slot.
afterTick(n) == 1

\* The runtime delivers a tick into the ticker's one-slot channel; a tick
\* that finds the slot taken is dropped.  Ticks that arrive after the worker
\* has returned are read by nobody and are left out.
Tick(w) ==
    /\ Alive
    /\ throttle[w] = 0
    /\ wpc[w] \in {"redirect", "loop", "gate", "call", "flight", "send"}
    /\ throttle' = [throttle EXCEPT ![w] = afterTick(@)]
    /\ ticks' = [ticks EXCEPT ![w] = @ + 1]
    /\ UNCHANGED << workVars, trace, client, C, initOnce, initPc, results,
                    makeCount, ctlVars, wg, ctxDone, sctxDone, spinner, wpc,
                    wi, wn, wres, report, panicked >>

\* A tick that finds the slot taken: the runtime drops it.
Tick_Dropped(w) ==
    /\ Alive
    /\ throttle[w] >= 1
    /\ ticks[w] < MaxTicks
    /\ wpc[w] \in {"redirect", "loop", "gate", "call", "flight", "send"}
    /\ throttle' = [throttle EXCEPT ![w] = afterTick(@)]
    /\ ticks' = [ticks EXCEPT ![w] = @ + 1]
    /\ UNCHANGED << workVars, trace, client, C, initOnce, initPc, results,
                    makeCount, ctlVars, wg, ctxDone, sctxDone, spinner, wpc,
                    wi, wn, wres, report, panicked >>

\* A loop that looks at ctx.Done() on its first iteration only.
loopTarget_CheckOnce(w) ==
    IF ~(wi[w] < wn[w]) THEN "exit"
    ELSE IF wi[w] = 0 /\ ctxDone THEN "exit"
    ELSE IF QPS > 0 THEN "gate"
    ELSE "call"

\* A loop that does not wait on its ticker.
loopTarget_NoGate(w) ==
    IF ~(wi[w] < wn[w]) THEN "exit"
    ELSE IF ctxDone THEN "exit"
    ELSE "call"

\* A select that never finds ctx.Done() ready.
Stopped_Never == FALSE

\* select { case <-ctx.Done(): ... }: is the first case ready?
Stopped == ctxDone

\* Where one evaluation of the loop head takes worker w: the for condition,
\* then the select on ctx.Done() with its default branch.
loopTarget(w) ==
    IF ~(wi[w] < wn[w]) THEN "exit"
    ELSE IF Stopped THEN "exit"
    ELSE IF QPS > 0 THEN "gate"
    ELSE "call"

runWorker_Loop(w) ==
    /\ Alive
    /\ wpc[w] = "loop"
    /\ wpc' = [wpc EXCEPT ![w] = loopTarget(w)]
    /\ UNCHANGED << workVars, ticks, trace, client, C, initOnce, initPc,
                    results, makeCount, ctlVars, wg, ctxDone, sctxDone,
                    spinner, wi, wn, wres, throttle, report, panicked >>

\* <-throttle
runWorker_Gate(w) ==
    /\ Alive
    /\ wpc[w] = "gate"
    /\ throttle[w] >= 1
    /\ throttle' = [throttle EXCEPT ![w] = @ - 1]
    /\ wpc' = [wpc EXCEPT ![w] = "call"]
    /\ UNCHANGED << workVars, ticks, trace, client, C, initOnce, initPc,
                    results, makeCount, ctlVars, wg, ctxDone, sctxDone,
                    spinner, wi, wn, wres, report, panicked >>

\* wg.Done() after runWorker has returned.
runWorker_Done(w) ==
    /\ Alive
    /\ wpc[w] = "exit"
    /\ wpc' = [wpc EXCEPT ![w] = "done"]
    /\ IF wg > 0
         THEN wg' = wg - 1 /\ UNCHANGED panicked
         ELSE panicked' = "negative WaitGroup counter" /\ UNCHANGED wg
    /\ UNCHANGED << workVars, ticks, trace, client, C, initOnce, initPc,
                    results, makeCount, ctlVars, ctxDone, sctxDone, spinner,
                    wi, wn, wres, throttle, report >>

\* ------------------------------------------------------- Work.makeRequest
\* makeRequest up to c.Do(req): the request comes from RequestFunc when it is
\* set and from cloneRequest(b.Request, ...) otherwise; the trace is attached
\* to the request's own context, not to ctx.
makeRequest_BeginBody(w) ==
    /\ Alive
    /\ wpc[w] = "call"
    /\ IF RequestFunc \/ Request
         THEN /\ wpc' = [wpc EXCEPT ![w] = "flight"]
              /\ wres' = [wres EXCEPT ![w] =
                              [NoResult EXCEPT !.w = w, !.k = wi[w],
                                               !.late = ctxDone]]
              /\ UNCHANGED panicked
         ELSE /\ panicked' = "nil pointer dereference"
              /\ UNCHANGED << wpc, wres >>
    /\ UNCHANGED << workVars, ticks, client, C, initOnce, initPc, results,
                    makeCount, ctlVars, wg, ctxDone, sctxDone, spinner, wi, wn,
                    throttle, report >>

makeRequest_Begin(w) == makeRequest_BeginBody(w) /\ UNCHANGED trace

\* The result fields after c.Do returned: code and size are assigned only
\* when err == nil and keep their zero values otherwise.
outcome(r, err, code, size) ==
    [r EXCEPT !.err = err,
              !.statusCode = IF err THEN 0 ELSE code,
              !.contentLength = IF err THEN 0 ELSE size]

\* A request bound to ctx: cancelling ctx aborts the round trip.
MaySucceed_AbortOnCancel == ~ctxDone

\* May the round trip of a request in flight end without an error?  The
\* request does not carry ctx, so cancelling ctx does not abort it.
MaySucceed == TRUE

\* resp, err := c.Do(req) returns; the body is drained.
makeRequest_ResponseBody(w) ==
    /\ Alive
    /\ wpc[w] = "flight"
    /\ \E err \in BOOLEAN, code \in StatusCodes, size \in BodySizes :
          /\ ~err => MaySucceed
          /\ wres' = [wres EXCEPT ![w] = outcome(wres[w], err, code, size)]
    /\ wpc' = [wpc EXCEPT ![w] = "send"]
    /\ UNCHANGED << workVars, ticks, client, C, initOnce, initPc, results,
                    makeCount, ctlVars, wg, ctxDone, sctxDone, spinner, wi, wn,
                    throttle, report, panicked >>

makeRequest_Response(w) == makeRequest_ResponseBody(w) /\ UNCHANGED trace

\* A send that overwrites what the buffer holds.
chanSend_Overwrite(ch, r) == [ch EXCEPT !.buf = << r >>]

\* The channel after a send that found room in its buffer.
chanSend(ch, r) == [ch EXCEPT !.buf = Append(ch.buf, r)]

\* A buffer that takes a result however many it holds.
HasRoom_Always(ch) == TRUE

\* Does the channel's buffer take one more result without blocking?
HasRoom(ch) == Len(ch.buf) < ch.cap

\* The result worker w sends.
sent(w) == [wres[w] EXCEPT !.cut = ctxDone]

\* A makeRequest that returns early on an error, sending nothing.
Sends_DropFailed(r) == ~r.err

\* Is result r sent?  makeRequest sends every result, failed or not.
Sends(r) == TRUE

\* A loop that steps over an attempt.
nextIndex_Skip(k, r) == k + 2

\* The loop index after an attempt: i++ whatever the attempt's outcome.
nextIndex(k, r) == k + 1

\* b.results <- &result{...}, then makeRequest returns and the loop's i++.
\* A send on a closed channel panics; a send on a nil channel, on a full
\* buffer, or on an unbuffered channel with no receiver waiting, blocks.
makeRequest_SendBody(w) ==
    /\ Alive
    /\ wpc[w] = "send"
    /\ IF ~Sends(wres[w])
         THEN UNCHANGED << results, report, panicked >>
         ELSE /\ results.made
              /\ IF results.closed
                   THEN /\ panicked' = "send on closed channel"
                        /\ UNCHANGED << results, report >>
                   ELSE /\ UNCHANGED panicked
                        /\ IF results.cap = 0
                             THEN /\ report.started /\ ~report.done
                                  /\ report' = [report EXCEPT !.received =
                                                   Append(@, sent(w))]
                                  /\ UNCHANGED results
                             ELSE /\ HasRoom(results)
                                  /\ results' = chanSend(results, sent(w))
                                  /\ UNCHANGED report
    /\ wi' = [wi EXCEPT ![w] = nextIndex(wi[w], wres[w])]
    /\ wres' = [wres EXCEPT ![w] = NoResult]
    /\ wpc' = [wpc EXCEPT ![w] = "loop"]
    /\ UNCHANGED << workVars, ticks, client, C, initOnce, initPc, makeCount,
                    ctlVars, wg, ctxDone, sctxDone, spinner, wn, throttle >>

makeRequest_Send(w) == makeRequest_SendBody(w) /\ UNCHANGED trace

\* ----------------------------------------------------------- the reporter
\* runReporter receives one result from the channel.
runReporter_Receive ==
    /\ Alive
    /\ report.started /\ ~report.done
    /\ results.made
    /\ results.buf # << >>
    /\ report' = [report EXCEPT !.received = Append(@, Head(results.buf))]
    /\ results' = [results EXCEPT !.buf = Tail(@)]
    /\ UNCHANGED << workVars, ticks, trace, client, C, initOnce, initPc,
                    makeCount, ctlVars, wg, ctxDone, sctxDone, spinner,
                    workerVars, panicked >>

\* runReporter finds the channel closed and drained, and signals done.
runReporter_Done ==
    /\ Alive
    /\ report.started /\ ~report.done
    /\ results.made /\ results.closed
    /\ results.buf = << >>
    /\ report' = [report EXCEPT !.done = TRUE]
    /\ UNCHANGED << workVars, ticks, trace, client, C, initOnce, initPc,
                    results, makeCount, ctlVars, wg, ctxDone, sctxDone,
                    spinner, workerVars, panicked >>

\* ------------------------------------------------------------------- Next
Next ==
    \/ \E c \in 0 .. MaxC : SetC(c)
    \/ Cancel
    \/ \E p \in Callers : Init_Enter(p)
    \/ \E p \in Callers : Init_Slow(p)
    \/ Run_Begin
    \/ Run_StartReporter
    \/ runWorkers_Setup
    \/ runWorkers_Spawn
    \/ runWorkers_SpawnLast
    \/ runWorkers_Wait
    \/ Run_Cancel
    \/ finish_Close
    \/ finish_WaitDone
    \/ finish_Finalize
    \/ \E w \in Workers : runWorker_Start(w)
    \/ \E w \in Workers : Tick(w)
    \/ \E w \in Workers : runWorker_Loop(w)
    \/ \E w \in Workers : runWorker_Gate(w)
    \/ \E w \in Workers : runWorker_Done(w)
    \/ \E w \in Workers : makeRequest_Begin(w)
    \/ \E w \in Workers : makeRequest_Response(w)
    \/ \E w \in Workers : makeRequest_Send(w)
    \/ runReporter_Receive
    \/ runReporter_Done

Spec == Init /\ [][Next]_vars

\* ------------------------------------------------------------------ fairness
\* The Go scheduler runs every runnable goroutine eventually: the goroutine
\* of Run, every worker and the reporter.  A ticker keeps ticking and a
\* request in flight returns (the client's Timeout bounds it).  Nothing obliges
\* the caller to cancel ctx or to call Init.
CtlStep ==
    \/ Init_Enter(0)
    \/ Init_Slow(0)
    \/ Run_StartReporter
    \/ runWorkers_Setup
    \/ runWorkers_Spawn
    \/ runWorkers_SpawnLast
    \/ runWorkers_Wait
    \/ Run_Cancel
    \/ finish_Close
    \/ finish_WaitDone
    \/ finish_Finalize

WorkerStep(w) ==
    \/ runWorker_Start(w)
    \/ runWorker_SetRedirect(w)
    \/ runWorker_Loop(w)
    \/ runWorker_Gate(w)
    \/ runWorker_Done(w)
    \/ makeRequest_Begin(w)
    \/ makeRequest_Response(w)
    \/ makeRequest_Send(w)

ReporterStep == runReporter_Receive \/ runReporter_Done

Fairness ==
    /\ WF_vars(CtlStep)
    /\ WF_vars(ReporterStep)
    /\ \A w \in Workers : WF_vars(WorkerStep(w)) /\ WF_vars(Tick(w))

FairSpec == Init /\ [][Next]_vars /\ Fairness

\* ------------------------------------------------ Run called a second time
\* Run has no guard against being called again on a Work whose Run has
\* returned: it makes a new sctx and a new indicator, calls b.Init() (a no-op
\* now), replaces b.report by a new report over the same, closed, b.results
\* and goes on as the first call did.
Run_Again ==
    /\ Alive
    /\ pc = "finished"
    /\ pc' = "init"
    /\ spinner' = IF ctxDone THEN onCtxDone("on") ELSE "on"
    /\ sctxDone' = FALSE
    /\ initPc' = [initPc EXCEPT ![0] = "idle"]
    /\ report' = [started |-> FALSE, received |-> << >>, done |-> FALSE,
                  finalized |-> FALSE]
    /\ UNCHANGED << workVars, ticks, trace, client, C, initOnce, results,
                    makeCount, i, left, wg, ctxDone, workerVars, panicked >>

NextRerun == Next \/ Run_Again

SpecRerun == Init /\ [][NextRerun]_vars

\* ------------------------------------ one request's instrumentation, in steps
\* makeRequest of worker 0 with its ClientTrace hooks.  GetConn and GotConn
\* run on the goroutine that called c.Do; DNSStart and DNSDone run on the
\* transport's dial goroutine, WroteRequest on its write loop and
\* GotFirstResponseByte on its read loop.  The hooks run concurrently with each
\* other and with the caller, and may run after c.Do has returned; what orders
\* them is only this: a connection is asked for before it is got, the request
\* is written and the response read on a connection that was got, and c.Do
\* returns a response only after the read loop has seen its first byte.
MaxClock == 3        \* largest value of now() explored

\* Every other goroutine leaves the attempt alone.
TraceOnly ==
    UNCHANGED << workVars, ticks, client, C, initOnce, initPc, results,
                 makeCount, ctlVars, wg, ctxDone, sctxDone, spinner,
                 workerVars, report, panicked >>

\* Time passes between any two steps.
AdvanceClock ==
    /\ Alive
    /\ trace.clock < MaxClock
    /\ trace.main # "done"
    /\ trace' = [trace EXCEPT !.clock = @ + 1]
    /\ TraceOnly

\* req is obtained and the trace attached; s := now(); c.Do(req) is entered.
trace_Begin ==
    /\ trace.main = "begin"
    /\ makeRequest_BeginBody(0)
    /\ trace' = [trace EXCEPT !.main = "do", !.s = trace.clock]

\* GetConn: connStart = now(), without mu.
GetConn ==
    /\ Alive
    /\ trace.main = "do"
    /\ wpc[0] = "flight"
    /\ trace' = [trace EXCEPT !.connStart = trace.clock,
                              !.bare = @ \cup {"connStart"},
                              !.asked = TRUE,
                              !.main = "conn"]
    /\ TraceOnly

\* GotConn: connDuration for a connection that is not reused, and reqStart,
\* without mu.
GotConn(reused) ==
    /\ Alive
    /\ trace.main = "conn"
    /\ wpc[0] = "flight"
    /\ trace' = [trace EXCEPT
                    !.connDuration = IF reused THEN @
                                     ELSE trace.clock - trace.connStart,
                    !.reqStart = trace.clock,
                    !.bare = @ \cup (IF reused THEN {"reqStart"}
                                     ELSE {"connStart", "connDuration",
                                           "reqStart"}),
                    !.got = TRUE,
                    !.main = "wait"]
    /\ TraceOnly

\* The dial the transport starts for the connection that was asked for.
Dialing == trace.asked

\* DNSStart: dnsStart = now(), without mu.
DNSStart ==
    /\ Alive
    /\ Dialing
    /\ trace.dial = "none"
    /\ trace' = [trace EXCEPT !.dnsStart = trace.clock,
                              !.bare = @ \cup {"dnsStart"},
                              !.dial = "lock"]
    /\ TraceOnly

\* DNSDone: mu.Lock()
DNSDone_Lock ==
    /\ Alive
    /\ trace.dial = "lock"
    /\ trace.mu = "free"
    /\ trace' = [trace EXCEPT !.mu = "dial", !.dial = "locked"]
    /\ TraceOnly

\* DNSDone: dnsDuration = now() - dnsStart; mu.Unlock()
DNSDone ==
    /\ Alive
    /\ trace.dial = "locked"
    /\ trace' = [trace EXCEPT !.dnsDuration = trace.clock - trace.dnsStart,
                              !.mu = "free", !.dial = "done"]
    /\ TraceOnly

\* The request is on a connection: the write loop and the read loop run.
OnConn == trace.got

\* WroteRequest: t := now(); reqDuration = t - reqStart, without mu.
WroteRequest ==
    /\ Alive
    /\ OnConn
    /\ trace.wloop = "none"
    /\ trace' = [trace EXCEPT !.wt = trace.clock,
                              !.reqDuration = trace.clock - trace.reqStart,
                              !.bare = @ \cup {"reqStart", "reqDuration"},
                              !.wloop = "lock"]
    /\ TraceOnly

\* WroteRequest: mu.Lock()
WroteRequest_Lock ==
    /\ Alive
    /\ trace.wloop = "lock"
    /\ trace.mu = "free"
    /\ trace' = [trace EXCEPT !.mu = "wloop", !.wloop = "locked"]
    /\ TraceOnly

\* WroteRequest: delayStart = t; mu.Unlock()
WroteRequest_Unlock ==
    /\ Alive
    /\ trace.wloop = "locked"
    /\ trace' = [trace EXCEPT !.delayStart = trace.wt,
                              !.mu = "free", !.wloop = "done"]
    /\ TraceOnly

\* GotFirstResponseByte: t := now()
GotFirstResponseByte ==
    /\ Alive
    /\ OnConn
    /\ trace.rloop = "none"
    /\ trace' = [trace EXCEPT !.rt = trace.clock, !.rloop = "lock"]
    /\ TraceOnly

\* GotFirstResponseByte: mu.Lock()
GotFirstResponseByte_Lock ==
    /\ Alive
    /\ trace.rloop = "lock"
    /\ trace.mu = "free"
    /\ trace' = [trace EXCEPT !.mu = "rloop", !.rloop = "locked"]
    /\ TraceOnly

\* GotFirstResponseByte: delayDuration = t - delayStart; resStart = t;
\* mu.Unlock()
GotFirstResponseByte_Unlock ==
    /\ Alive
    /\ trace.rloop = "locked"
    /\ trace' = [trace EXCEPT !.delayDuration = trace.rt - trace.delayStart,
                              !.resStart = trace.rt,
                              !.mu = "free", !.rloop = "done"]
    /\ TraceOnly

\* May c.Do return a response now?  The read loop hands the response over
\* after its GotFirstResponseByte hook has returned.
ResponseReady == trace.main = "wait" /\ trace.rloop = "done"

\* resp, err := c.Do(req) returns, with an error at any point or with a
\* response; the body is drained; t := now().
trace_DoReturns ==
    /\ trace.main \in {"do", "conn", "wait"}
    /\ makeRequest_ResponseBody(0)
    /\ ~wres'[0].err => ResponseReady
    /\ trace' = [trace EXCEPT !.t = trace.clock, !.main = "returned"]

\* resDuration = t - resStart; finish := t - s: resStart is read without mu.
trace_ResDuration ==
    /\ Alive
    /\ trace.main = "returned"
    /\ trace' = [trace EXCEPT !.resDuration = trace.t - trace.resStart,
                              !.bare = @ \cup {"resStart", "resDuration"},
                              !.main = "lock"]
    /\ TraceOnly

\* mu.Lock() before the send.
trace_Lock ==
    /\ Alive
    /\ trace.main = "lock"
    /\ trace.mu = "free"
    /\ trace' = [trace EXCEPT !.mu = "main", !.main = "locked"]
    /\ TraceOnly

\* The timing fields of &result{...}, read under mu.
timesOf(tr, err) ==
    [built |-> TRUE, err |-> err, offset |-> tr.s, duration |-> tr.t - tr.s,
     connDuration |-> tr.connDuration, dnsDuration |-> tr.dnsDuration,
     reqDuration |-> tr.reqDuration, resDuration |-> tr.resDuration,
     delayDuration |-> tr.delayDuration]

\* b.results <- &result{...}, holding mu.
trace_Send ==
    /\ trace.main = "locked"
    /\ makeRequest_SendBody(0)
    /\ trace' = [trace EXCEPT !.res = timesOf(trace, wres[0].err),
                              !.main = "unlock"]

\* mu.Unlock(); makeRequest returns.
trace_Unlock ==
    /\ Alive
    /\ trace.main = "unlock"
    /\ trace' = [trace EXCEPT !.mu = "free", !.main = "done"]
    /\ TraceOnly

\* The run at the moment its only worker calls makeRequest: N = 1, C = 1.
AtCall ==
    /\ Request = TRUE
    /\ RequestFunc = FALSE
    /\ N = 1
    /\ C = 1
    /\ QPS = 0
    /\ DisableRedirects = FALSE
    /\ client = newClient
    /\ initOnce = [done |-> TRUE]
    /\ initPc = [p \in Callers |-> IF p = 0 THEN "ret" ELSE "idle"]
    /\ results = [made |-> TRUE, cap |-> perWorkerBuf, buf |-> << >>,
                  closed |-> FALSE]
    /\ makeCount = 1
    /\ pc = "wait"
    /\ i = 0
    /\ left = 1
    /\ wg = 1
    /\ ctxDone = FALSE
    /\ sctxDone = FALSE
    /\ spinner = "on"
    /\ wpc = [w \in Workers |-> IF w = 0 THEN "call" ELSE "none"]
    /\ wi = [w \in Workers |-> 0]
    /\ wn = [w \in Workers |-> IF w = 0 THEN 1 ELSE 0]
    /\ wres = [w \in Workers |-> NoResult]
    /\ throttle = [w \in Workers |-> -1]
    /\ ticks = [w \in Workers |-> 0]
    /\ report = [started |-> TRUE, received |-> << >>, done |-> FALSE,
                 finalized |-> FALSE]
    /\ panicked = "none"

\* now() at the call is the time the process has been running.
InitTrace ==
    /\ AtCall
    /\ trace \in {newTrace(c) : c \in 0 .. 1}

NextTrace ==
    \/ AdvanceClock
    \/ trace_Begin
    \/ GetConn
    \/ \E reused \in BOOLEAN : GotConn(reused)
    \/ DNSStart
    \/ DNSDone_Lock
    \/ DNSDone
    \/ WroteRequest
    \/ WroteRequest_Lock
    \/ WroteRequest_Unlock
    \/ GotFirstResponseByte
    \/ GotFirstResponseByte_Lock
    \/ GotFirstResponseByte_Unlock
    \/ trace_DoReturns
    \/ trace_ResDuration
    \/ trace_Lock
    \/ trace_Send
    \/ trace_Unlock

SpecTrace == InitTrace /\ [][NextTrace]_vars

\* ------------------------------------------------ the full-sink specification
\* A run of one worker (C = 1, so a buffer of perWorkerBuf results) taken up
\* where the worker has pushed all but one of the results the buffer can hold
\* and the reporter's goroutine has not been scheduled since it was started;
\* N leaves the worker MaxOver requests more than the buffer holds.
MaxOver == 1         \* requests of the worker beyond the buffer's capacity

Pushed(k) == [NoResult EXCEPT !.w = 0, !.k = k, !.statusCode = 200,
                              !.contentLength = 7]

InitFull ==
    /\ Request = TRUE
    /\ RequestFunc = FALSE
    /\ N = perWorkerBuf + MaxOver
    /\ C = 1
    /\ QPS = 0
    /\ DisableRedirects = FALSE
    /\ client = newClient
    /\ trace = NoTrace
    /\ initOnce = [done |-> TRUE]
    /\ initPc = [p \in Callers |-> IF p = 0 THEN "ret" ELSE "idle"]
    /\ results = [made |-> TRUE, cap |-> min(1 * perWorkerBuf, maxResult),
                  buf |-> [x \in 1 .. (perWorkerBuf - 1) |-> Pushed(x - 1)],
                  closed |-> FALSE]
    /\ makeCount = 1
    /\ pc = "wait"
    /\ i = 0
    /\ left = N
    /\ wg = 1
    /\ ctxDone = FALSE
    /\ sctxDone = FALSE
    /\ spinner = "on"
    /\ wpc = [w \in Workers |-> IF w = 0 THEN "loop" ELSE "none"]
    /\ wi = [w \in Workers |-> IF w = 0 THEN perWorkerBuf - 1 ELSE 0]
    /\ wn = [w \in Workers |-> IF w = 0 THEN N ELSE 0]
    /\ wres = [w \in Workers |-> NoResult]
    /\ throttle = [w \in Workers |-> -1]
    /\ ticks = [w \in Workers |-> 0]
    /\ report = [started |-> TRUE, received |-> << >>, done |-> FALSE,
                 finalized |-> FALSE]
    /\ panicked = "none"

NextFull ==
    \/ Cancel
    \/ runWorkers_Wait
    \/ Run_Cancel
    \/ finish_Close
    \/ finish_WaitDone
    \/ finish_Finalize
    \/ \E w \in Workers : runWorker_Loop(w)
    \/ \E w \in Workers : runWorker_Done(w)
    \/ \E w \in Workers : makeRequest_Begin(w)
    \/ \E w \in Workers : makeRequest_Response(w)
    \/ \E w \in Workers : makeRequest_Send(w)
    \/ runReporter_Receive
    \/ runReporter_Done

SpecFull == InitFull /\ [][NextFull]_vars

\* ------------------------------------------------ the rate-gate specification
\* A run with and without a rate limit in which the ticks that are dropped
\* are steps too, so that ticks counts every tick a worker's ticker emitted.
InitGate ==
    /\ Request = TRUE
    /\ RequestFunc = FALSE
    /\ N \in 0 .. MaxN
    /\ C \in 1 .. MaxC
    /\ QPS \in {0, 1}
    /\ DisableRedirects = FALSE
    /\ client = NoClient
    /\ trace = NoTrace
    /\ initOnce = [done |-> FALSE]
    /\ initPc = [p \in Callers |-> "idle"]
    /\ results = NilChan
    /\ makeCount = 0
    /\ pc = "idle"
    /\ i = 0
    /\ left = 0
    /\ wg = 0
    /\ ctxDone = FALSE
    /\ sctxDone = FALSE
    /\ spinner = "off"
    /\ wpc = [w \in Workers |-> "none"]
    /\ wi = [w \in Workers |-> 0]
    /\ wn = [w \in Workers |-> 0]
    /\ wres = [w \in Workers |-> NoResult]
    /\ throttle = [w \in Workers |-> -1]
    /\ ticks = [w \in Workers |-> 0]
    /\ report = [started |-> FALSE, received |-> << >>, done |-> FALSE,
                 finalized |-> FALSE]
    /\ panicked = "none"

NextGate ==
    \/ Cancel
    \/ Run_Begin
    \/ Init_Enter(0)
    \/ Init_Slow(0)
    \/ Run_StartReporter
    \/ runWorkers_Setup
    \/ runWorkers_Spawn
    \/ runWorkers_SpawnLast
    \/ runWorkers_Wait
    \/ Run_Cancel
    \/ finish_Close
    \/ finish_WaitDone
    \/ finish_Finalize
    \/ \E w \in Workers : runWorker_Start(w)
    \/ \E w \in Workers : Tick(w)
    \/ \E w \in Workers : Tick_Dropped(w)
    \/ \E w \in Workers : runWorker_Loop(w)
    \/ \E w \in Workers : runWorker_Gate(w)
    \/ \E w \in Workers : runWorker_Done(w)
    \/ \E w \in Workers : makeRequest_Begin(w)
    \/ \E w \in Workers : makeRequest_Response(w)
    \/ \E w \in Workers : makeRequest_Send(w)
    \/ runReporter_Receive
    \/ runReporter_Done

SpecGate == InitGate /\ [][NextGate]_vars

\* ------------------------------------------- the shared-client specification
\* A run with or without b.DisableRedirects, followed from Run to its end:
\* the workers' assignments to the shared client are steps of their own.
MaxClientN == 2      \* largest N of the shared-client specification

InitClient ==
    /\ Request = TRUE
    /\ RequestFunc = FALSE
    /\ N \in 0 .. MaxClientN
    /\ C \in 1 .. MaxC
    /\ QPS = 0
    /\ DisableRedirects \in BOOLEAN
    /\ client = NoClient
    /\ trace = NoTrace
    /\ initOnce = [done |-> FALSE]
    /\ initPc = [p \in Callers |-> "idle"]
    /\ results = NilChan
    /\ makeCount = 0
    /\ pc = "idle"
    /\ i = 0
    /\ left = 0
    /\ wg = 0
    /\ ctxDone = FALSE
    /\ sctxDone = FALSE
    /\ spinner = "off"
    /\ wpc = [w \in Workers |-> "none"]
    /\ wi = [w \in Workers |-> 0]
    /\ wn = [w \in Workers |-> 0]
    /\ wres = [w \in Workers |-> NoResult]
    /\ throttle = [w \in Workers |-> -1]
    /\ ticks = [w \in Workers |-> 0]
    /\ report = [started |-> FALSE, received |-> << >>, done |-> FALSE,
                 finalized |-> FALSE]
    /\ panicked = "none"

NextClient ==
    \/ Cancel
    \/ Run_Begin
    \/ Init_Enter(0)
    \/ Init_Slow(0)
    \/ Run_StartReporter
    \/ runWorkers_Setup
    \/ runWorkers_Spawn
    \/ runWorkers_SpawnLast
    \/ runWorkers_Wait
    \/ Run_Cancel
    \/ finish_Close
    \/ finish_WaitDone
    \/ finish_Finalize
    \/ \E w \in Workers : runWorker_Start(w)
    \/ \E w \in Workers : runWorker_SetRedirect(w)
    \/ \E w \in Workers : runWorker_Loop(w)
    \/ \E w \in Workers : runWorker_Done(w)
    \/ \E w \in Workers : makeRequest_Begin(w)
    \/ \E w \in Workers : makeRequest_Response(w)
    \/ \E w \in Workers : makeRequest_Send(w)
    \/ runReporter_Receive
    \/ runReporter_Done

SpecClient == InitClient /\ [][NextClient]_vars

\* --------------------------------------- the share-distribution specification
\* runWorkers' spawn loop on its own, for a wider range of N and C: Run up to
\* wg.Wait(), with no worker scheduled yet.
InitDist ==
    /\ Request = TRUE
    /\ RequestFunc = FALSE
    /\ N \in 0 .. MaxDistN
    /\ C \in 1 .. MaxDistC
    /\ QPS = 0
    /\ DisableRedirects = FALSE
    /\ client = NoClient
    /\ trace = NoTrace
    /\ initOnce = [done |-> FALSE]
    /\ initPc = [p \in Callers |-> "idle"]
    /\ results = NilChan
    /\ makeCount = 0
    /\ pc = "idle"
    /\ i = 0
    /\ left = 0
    /\ wg = 0
    /\ ctxDone = FALSE
    /\ sctxDone = FALSE
    /\ spinner = "off"
    /\ wpc = [w \in Workers |-> "none"]
    /\ wi = [w \in Workers |-> 0]
    /\ wn = [w \in Workers |-> 0]
    /\ wres = [w \in Workers |-> NoResult]
    /\ throttle = [w \in Workers |-> -1]
    /\ ticks = [w \in Workers |-> 0]
    /\ report = [started |-> FALSE, received |-> << >>, done |-> FALSE,
                 finalized |-> FALSE]
    /\ panicked = "none"

NextDist ==
    \/ Run_Begin
    \/ Init_Enter(0)
    \/ Init_Slow(0)
    \/ Run_StartReporter
    \/ runWorkers_Setup
    \/ runWorkers_Spawn
    \/ runWorkers_SpawnLast

SpecDist == InitDist /\ [][NextDist]_vars

\* =================================================================== claims
\* Every result that has been sent: those the reporter received, then those
\* still buffered in the channel.
AllResults == report.received \o results.buf

Range(q) == {q[x] : x \in 1 .. Len(q)}

RECURSIVE SumTo(_, _)
SumTo(f, n) == IF n < 0 THEN 0 ELSE f[n] + SumTo(f, n - 1)

\* The results of AllResults that worker w sent.
ResultsOf(w) == SelectSeq(AllResults, LAMBDA r : r.w = w)

NoDuplicates ==
    \A a, b \in 1 .. Len(AllResults) :
        (AllResults[a].w = AllResults[b].w /\ AllResults[a].k = AllResults[b].k)
            => a = b

Returned(w) == wpc[w] \in {"exit", "done"}

\* C1 (completeness): when the reporter signals done in a run whose context
\* was not cancelled, it has received exactly N results, each attempt (worker,
\* index) once: none lost, none twice, whatever the interleaving.
C1_Completeness ==
    (report.done /\ ~ctxDone) =>
        /\ Len(report.received) = N
        /\ results.buf = << >>
        /\ NoDuplicates
        /\ \A w \in 0 .. (C - 1) :
              {r.k : r \in {q \in Range(report.received) : q.w = w}}
                 = 0 .. (wn[w] - 1)

C1_Witness ==
    /\ report.done /\ ~ctxDone
    /\ C = 2 /\ N = 3
    /\ Len(report.received) = 3
    /\ \E a, b \in 1 .. 3 : a < b /\ report.received[a].w = 1
                                  /\ report.received[b].w = 0

C3_ClosedAfterWorkers ==
    /\ panicked # "close of nil or closed channel"
    /\ results.closed => \A w \in 0 .. (C - 1) : Returned(w)
    /\ results.closed => pc \in {"waitdone", "finalize", "finished"}
    /\ pc \in {"waitdone", "finalize", "finished"} => results.closed

C3_Witness ==
    /\ results.closed
    /\ C = 2 /\ N = 3
    /\ ctxDone
    /\ \E w \in 0 .. 1 : wi[w] < wn[w]
    /\ \E w \in 0 .. 1 : wi[w] > 0

\* C4 (no write after close): no worker ever sends on the closed channel, and
\* while the channel is closed no worker is at its send, also when ctx is
\* cancelled while requests are in flight.
C4_NoSendAfterClose ==
    /\ panicked # "send on closed channel"
    /\ results.closed =>
          \A w \in Workers : wpc[w] \notin {"call", "flight", "send"}

C4_Witness ==
    /\ results.closed
    /\ \E x \in 1 .. Len(AllResults) : ~AllResults[x].late /\ AllResults[x].cut

\* C5 (cancellation semantics): a worker that finds ctx cancelled at its
\* loop check returns without starting a request and, once returned, starts
\* none and sends nothing; cancelling ctx changes no worker and no request in
\* flight; a request in flight while ctx is cancelled can still end without an
\* error, and every attempt a worker has finished has exactly one result.
C5_LoopCheck ==
    \A w \in Workers :
        /\ (wpc[w] = "loop" /\ ctxDone /\ wpc'[w] # "loop") =>
              (wpc'[w] = "exit" /\ wi'[w] = wi[w] /\ AllResults' = AllResults)
        /\ Returned(w) => (Returned(w)' /\ wi'[w] = wi[w] /\ wres'[w] = wres[w])

C5_CancelLeavesFlights ==
    (ctxDone' /\ ~ctxDone) => (wpc' = wpc /\ wres' = wres /\ wi' = wi
                                 /\ AllResults' = AllResults)

C5_OneResultPerAttempt ==
    /\ NoDuplicates
    /\ \A w \in Workers : {r.k : r \in Range(ResultsOf(w))} = 0 .. (wi[w] - 1)
    /\ \A w \in Workers :
          (wpc[w] = "flight" /\ ctxDone) =>
              ENABLED (/\ makeRequest_Response(w)
                       /\ wpc'[w] = "send"
                       /\ ~wres'[w].err)

\* C5: the three parts above, in every state and over every step.
C5_Cancellation ==
    /\ []C5_OneResultPerAttempt
    /\ [][C5_LoopCheck /\ C5_CancelLeavesFlights]_vars

C5_Witness ==
    /\ ctxDone
    /\ \E w \in Workers : Returned(w) /\ wi[w] < wn[w] /\ wi[w] > 0
    /\ \E x \in 1 .. Len(AllResults) :
          ~AllResults[x].late /\ AllResults[x].cut /\ ~AllResults[x].err

\* C6 (reporter completion ordering): Run waits for the reporter's done
\* signal only with the channel closed, and reaches finalize only with the
\* done signal given and no result left in the channel.
C6_FinalizeAfterDone ==
    /\ pc = "waitdone" => results.closed
    /\ (pc \in {"finalize", "finished"} \/ report.finalized) =>
          /\ results.closed
          /\ report.done
          /\ results.buf = << >>

C6_Witness ==
    /\ report.finalized
    /\ N = 3 /\ C = 2
    /\ Len(report.received) = 3

\* C7 (consumer before producers): whenever a worker has been spawned, a
\* request has been begun or a result has been sent, the channel exists and
\* the reporter's goroutine has been started.
C7_ReporterFirst ==
    ((\E w \in Workers : wpc[w] # "none") \/ AllResults # << >>) =>
        (results.made /\ report.started)

C7_Witness ==
    /\ report.started /\ results.made
    /\ report.received = << >>
    /\ \E w \in Workers : wpc[w] = "flight"

\* C8 (per-request failure is contained): a failed attempt's result carries
\* status code 0 and content length 0; the results sent are exactly one per
\* finished attempt and never more than N; a worker returns before its share
\* is done only when ctx is cancelled, and a run that was not cancelled has
\* made all N attempts when its workers have returned.
C8_FailureContained ==
    /\ \A r \in Range(AllResults) :
          r.err => (r.statusCode = 0 /\ r.contentLength = 0)
    /\ \A w \in Workers : wres[w].err => (wres[w].statusCode = 0
                                            /\ wres[w].contentLength = 0)
    /\ Len(AllResults) = SumTo(wi, C - 1)
    /\ Len(AllResults) <= N
    /\ NoDuplicates
    /\ \A w \in Workers : (Returned(w) /\ ~ctxDone) => wi[w] = wn[w]
    /\ (pc \in {"cancel", "close", "waitdone", "finalize", "finished"}
          /\ ~ctxDone)
          => Len(AllResults) = N
    /\ panicked \in {"none", "nil pointer dereference"}

C8_Witness ==
    /\ ~ctxDone
    /\ \E a, b \in 1 .. Len(AllResults) :
          /\ AllResults[a].w = AllResults[b].w
          /\ AllResults[a].k < AllResults[b].k
          /\ AllResults[a].err
          /\ ~AllResults[b].err

\* C9 (one-time sink creation): make(chan) runs at most once however many
\* Init calls are made and however they interleave with each other and with
\* Run; a Work on which neither Init nor Run has run its slow path has no
\* channel; an Init call that finds the channel made leaves it and its
\* contents as they are.
C9_MadeOnce ==
    /\ makeCount <= 1
    /\ results.made <=> makeCount = 1
    /\ (\A p \in Callers : initPc[p] = "idle") => results = NilChan
    /\ pc \notin {"idle", "init"} => results.made

C9_InitKeepsSink ==
    (results.made /\ initPc' # initPc) => results' = results

\* C9: the channel is made once (every state) and kept by every later Init
\* call (every step).
C9_SinkCreatedOnce == []C9_MadeOnce /\ [][C9_InitKeepsSink]_vars

C9_Witness ==
    /\ makeCount = 1
    /\ results.buf # << >>
    /\ initPc[1] = "slow"

\* C10 (Run terminates): under the fairness of FairSpec, a Run that has begun
\* reaches Finished, whether or not ctx is cancelled on the way.
C10_RunTerminates == (pc # "idle") ~> (pc = "finished")

\* C10 for a Work whose request template is set: what remains of the claim
\* when runWorkers' read of b.Request.Host cannot fail.
C10_RunTerminatesWithTemplate == (pc # "idle" /\ Request) ~> (pc = "finished")

\* The controller's phase: Idle 0, Initializing 1 (the channel, the reporter,
\* the client), Running 2 (the workers, up to the end of the wait), Draining 3
\* (the close and the wait for the reporter), Finished 4 (finalize).
Phase ==
    CASE pc = "idle" -> 0
      [] pc \in {"init", "workers"} -> 1
      [] pc \in {"spawn", "wait", "cancel"} -> 2
      [] pc \in {"close", "waitdone"} -> 3
      [] pc \in {"finalize", "finished"} -> 4

\* C11 (controller phase order): every step keeps the phase or moves it to
\* the next one, and once Run has finished nothing restarts it: the phase
\* stays Finished, no worker is spawned again and the process does not panic.
C11_PhaseOrder ==
    [][/\ Phase' \in {Phase, Phase + 1}
       /\ pc = "finished" =>
             (pc' = "finished" /\ wpc' = wpc /\ panicked' = "none")]_vars

\* C11 seen from the states: once the first run has closed the channel, no
\* worker holds a result to push and the process has not panicked.
C11_NoSecondRound ==
    results.closed => (panicked = "none" /\ \A w \in Workers : wpc[w] # "send")

\* The workers that have a request under way: begun, and its result not yet
\* pushed.
InFlight == {w \in Workers : wpc[w] \in {"flight", "send"}}

\* C12 (sequential within a worker): a worker has at most one request under
\* way, and it is its request number wi: the results of its requests 0 .. wi-1
\* have all been pushed, in that order, before it began; a worker with nothing
\* under way holds no result; only the C spawned workers ever run, so at most
\* C requests are in flight.
C12_Sequential ==
    /\ \A w \in Workers :
          /\ (w \in InFlight) <=> (wres[w] # NoResult)
          /\ (w \in InFlight) => (wres[w].w = w /\ wres[w].k = wi[w])
          /\ Len(ResultsOf(w)) = wi[w]
          /\ \A x \in 1 .. Len(ResultsOf(w)) : ResultsOf(w)[x].k = x - 1
          /\ w >= C => wpc[w] = "none"
    /\ Cardinality(InFlight) <= C

C12_Witness ==
    /\ C = 2
    /\ InFlight = {0, 1}
    /\ wres[0].k = 0 /\ wpc[0] = "flight"
    /\ wres[1].k = 1 /\ wpc[1] = "send"
    /\ Len(AllResults) = 1

\* The workers about to assign client.CheckRedirect, and those executing a
\* request through the client (c.Do reads the client's fields).
ClientWriters == {w \in Workers : wpc[w] = "redirect"}
ClientReaders == {w \in Workers : wpc[w] = "flight"}

\* C13 (the shared client is not mutated): never are two workers about to
\* write the client's redirect policy at once, and never is one about to write
\* it while another executes a request through the client.
C13_NoRacingWrite ==
    \A a \in ClientWriters : (ClientWriters \cup ClientReaders) \ {a} = {}

\* C13, the plain reading: once built and handed to the workers, the client
\* has the fields it was built with.
C13_ClientNeverMutated ==
    client.made => (client.writes = 0 /\ client.CheckRedirect = "nil")

\* C14 (instrumentation under the mutex): no timing variable of the attempt
\* is ever read or written by a hook or by makeRequest without mu held.
C14_AccessesUnderMutex == trace.bare = {}

\* The accesses to the timing variables that a goroutine's next step makes:
\* [v: the variable, wr: a write, mu: made holding mu].
Acc(v, wr, locked) == [v |-> v, wr |-> wr, mu |-> locked]

PendingMain ==
    CASE trace.main = "do" /\ wpc[0] = "flight" ->
            {Acc("connStart", TRUE, FALSE)}
      [] trace.main = "conn" /\ wpc[0] = "flight" ->
            {Acc("connStart", FALSE, FALSE), Acc("connDuration", TRUE, FALSE),
             Acc("reqStart", TRUE, FALSE)}
      [] trace.main = "returned" ->
            {Acc("resStart", FALSE, FALSE), Acc("resDuration", TRUE, FALSE)}
      [] trace.main = "locked" ->
            {Acc(v, FALSE, TRUE) : v \in {"connDuration", "dnsDuration",
                                          "reqDuration", "resDuration",
                                          "delayDuration"}}
      [] OTHER -> {}

PendingDial ==
    CASE trace.dial = "none" /\ Dialing -> {Acc("dnsStart", TRUE, FALSE)}
      [] trace.dial = "locked" ->
            {Acc("dnsStart", FALSE, TRUE), Acc("dnsDuration", TRUE, TRUE)}
      [] OTHER -> {}

PendingWloop ==
    CASE trace.wloop = "none" /\ OnConn ->
            {Acc("reqStart", FALSE, FALSE), Acc("reqDuration", TRUE, FALSE)}
      [] trace.wloop = "locked" -> {Acc("delayStart", TRUE, TRUE)}
      [] OTHER -> {}

PendingRloop ==
    CASE trace.rloop = "locked" ->
            {Acc("delayStart", FALSE, TRUE), Acc("delayDuration", TRUE, TRUE),
             Acc("resStart", TRUE, TRUE)}
      [] OTHER -> {}

Pending == << PendingMain, PendingDial, PendingWloop, PendingRloop >>

\* Two goroutines are about to access the same timing variable, one of them
\* writing it, and not both hold mu.
Races(p, q) ==
    \E a \in p, b \in q : a.v = b.v /\ (a.wr \/ b.wr) /\ ~(a.mu /\ b.mu)

\* C14 (no unprotected interleaving): at no time can a hook's write of a timing
\* variable and another goroutine's access to it happen in either order with
\* one of them outside mu.
C14_NoRace ==
    \A g, h \in 1 .. 4 : g # h => ~Races(Pending[g], Pending[h])

\* C18 (phase consistency): the timing fields of a successful result satisfy
\* resDuration = duration - (first-byte time - start time), none of them is
\* negative, and connDuration + reqDuration + delayDuration + resDuration is
\* at most duration.
C18_PhaseConsistency ==
    (trace.res.built /\ ~trace.res.err) =>
        /\ trace.res.resDuration
              = trace.res.duration - (trace.resStart - trace.res.offset)
        /\ trace.res.duration >= 0
        /\ trace.res.connDuration >= 0
        /\ trace.res.dnsDuration >= 0
        /\ trace.res.reqDuration >= 0
        /\ trace.res.resDuration >= 0
        /\ trace.res.delayDuration >= 0
        /\ trace.res.connDuration + trace.res.reqDuration
              + trace.res.delayDuration + trace.res.resDuration
                 <= trace.res.duration

\* C18, its parts one by one.
C18_ReadIsTotalMinusFirstByte ==
    (trace.res.built /\ ~trace.res.err) =>
        trace.res.resDuration
           = trace.res.duration - (trace.resStart - trace.res.offset)

C18_NoNegativeDuration ==
    (trace.res.built /\ ~trace.res.err) =>
        /\ trace.res.reqDuration >= 0
        /\ trace.res.resDuration >= 0
        /\ trace.res.delayDuration >= 0
        /\ trace.res.connDuration >= 0

C18_SumWithinTotal ==
    (trace.res.built /\ ~trace.res.err /\ trace.res.delayDuration >= 0) =>
        trace.res.connDuration + trace.res.reqDuration
           + trace.res.delayDuration + trace.res.resDuration
              <= trace.res.duration

\* The channel's buffer is full.
Full == results.made /\ Len(results.buf) >= results.cap

\* C15, in every state: the channel's capacity is min(C*1000, 32000000) and
\* it never holds more; a worker whose push finds the buffer full cannot
\* proceed, while the reporter can receive, and a worker whose push finds room
\* can proceed; when the reporter is done it has received every result pushed.
C15_Occupancy ==
    /\ results.made => results.cap = min(C * 1000, 32000000)
    /\ Len(results.buf) <= results.cap
    /\ \A w \in Workers :
          (wpc[w] = "send" /\ ~results.closed) =>
              IF Full THEN /\ ~ENABLED makeRequest_Send(w)
                           /\ ENABLED runReporter_Receive
                      ELSE ENABLED makeRequest_Send(w)
    /\ report.done => (results.buf = << >>
                         /\ Len(report.received) = SumTo(wi, C - 1))

\* C15, over every step: a worker at its push either stays there with its
\* result and its loop index untouched, or has pushed exactly that result at
\* the end of the results pushed so far; no result pushed is ever removed or
\* replaced, the reporter receives the oldest result of the buffer, and a full
\* buffer gets room only by the reporter receiving.
C15_BlockedKeeps ==
    /\ (Full /\ ~Full') => report.received' # report.received
    /\ \A w \in Workers : wpc[w] = "send" =>
          \/ wpc'[w] = "send" /\ wres'[w] = wres[w] /\ wi'[w] = wi[w]
          \/ /\ wpc'[w] = "loop"
             /\ wi'[w] = wi[w] + 1
             /\ AllResults' = Append(AllResults, sent(w))
    /\ \/ AllResults' = AllResults
       \/ \E w \in Workers : AllResults' = Append(AllResults, sent(w))
    /\ \/ report.received' = report.received
       \/ /\ results.buf # << >>
          /\ report.received' = Append(report.received, Head(results.buf))

\* C15 (a full sink blocks, never drops): the two parts above.
C15_FullSinkBlocks == []C15_Occupancy /\ [][C15_BlockedKeeps]_vars

\* C15 under the scheduler's fairness: a worker at its push gets past it.
C15_PushGetsThrough == (wpc[0] = "send") ~> (wpc[0] # "send")

C15_Witness ==
    /\ wpc[0] = "send"
    /\ wres[0].k = perWorkerBuf
    /\ Len(results.buf) = perWorkerBuf
    /\ results.cap = perWorkerBuf
    /\ report.received = << >>
    /\ ~ENABLED makeRequest_Send(0)

\* The requests worker w has started: those finished and the one under way.
Started(w) == wi[w] + (IF wpc[w] \in {"call", "flight", "send"} THEN 1 ELSE 0)

\* C16, in every state: with QPS > 0 a worker has started no more requests
\* than its own ticker has emitted ticks, and however many ticks were emitted
\* while it was busy at most one is waiting for it; with QPS <= 0 a worker has
\* no ticker and is never at a gate.
C16_Gated ==
    \A w \in Workers :
        /\ QPS > 0 =>
              /\ Started(w) <= ticks[w]
              /\ throttle[w] \in {-1, 0, 1}
              /\ throttle[w] = -1 => wpc[w] \in {"none", "start"}
        /\ QPS <= 0 =>
              /\ wpc[w] # "gate"
              /\ throttle[w] = -1
              /\ ticks[w] = 0

\* C16, over every step: with QPS > 0 a worker starts a request only by
\* taking a tick that is waiting in its own ticker's channel, which leaves
\* none there for the request after it; a tick changes the ticker of one
\* worker only and moves no worker.
C16_OneTickOneRequest ==
    \A w \in Workers :
        /\ (QPS > 0 /\ Started(w)' # Started(w)) =>
              /\ Started(w)' = Started(w) + 1
              /\ wpc[w] = "gate"
              /\ throttle[w] = 1 /\ throttle'[w] = 0
              /\ \A v \in Workers \ {w} : throttle'[v] = throttle[v]
        /\ ticks'[w] # ticks[w] =>
              /\ wpc' = wpc
              /\ \A v \in Workers \ {w} :
                    throttle'[v] = throttle[v] /\ ticks'[v] = ticks[v]

\* C16 (per-worker rate gating): the two parts above.
C16_RateGating == []C16_Gated /\ [][C16_OneTickOneRequest]_vars

\* A worker whose ticker emitted three ticks during its first request: one
\* tick waits for it, and the other worker has its own ticker.
C16_Witness ==
    /\ QPS > 0 /\ C = 2
    /\ wpc[0] = "flight" /\ Started(0) = 1
    /\ ticks[0] = 3 /\ throttle[0] = 1
    /\ ticks[1] = 0 /\ wpc[1] = "gate"

\* C17 (template or builder): a Work that has a request builder and no
\* template runs without a panic, and when its reporter is done in a run that
\* was not cancelled, N results have been received.
C17_BuilderOnlyRuns ==
    (RequestFunc /\ ~Request) =>
        /\ panicked = "none"
        /\ (report.done /\ ~ctxDone) => Len(report.received) = N

\* C17 for a Work that has a template, with or without a builder: every
\* attempt gets its request and the run does not panic.
C17_WithTemplateRuns ==
    Request => (panicked = "none"
                  /\ ((report.done /\ ~ctxDone) => Len(report.received) = N))

\* C19, in every state: a worker is spawned only with the indicator started;
\* Run's own cancel of the indicator has happened only with every worker
\* returned and its wg.Done() made, and the channel is closed only after it;
\* an external cancellation has stopped the indicator and stops every worker
\* at its next loop check; the indicator is stopped by one of the two only.
C19_Window ==
    /\ (\E w \in Workers : wpc[w] # "none") => spinner # "off"
    /\ sctxDone => \A w \in 0 .. (C - 1) : wpc[w] = "done"
    /\ results.closed => sctxDone
    /\ (ctxDone /\ pc # "idle") => spinner = "stopped"
    /\ spinner = "stopped" => (ctxDone \/ sctxDone)
    /\ ctxDone => \A w \in Workers : wpc[w] = "loop" => loopTarget(w) = "exit"

\* C19, over every step: Run's cancel of the indicator cancels no worker and
\* not the caller's ctx; the external cancellation changes no worker either,
\* it is seen by the workers at their loop check.
C19_CancelSparesWorkers ==
    /\ (sctxDone' /\ ~sctxDone) =>
          (ctxDone' = ctxDone /\ wpc' = wpc /\ wres' = wres
             /\ spinner' = "stopped")
    /\ (ctxDone' /\ ~ctxDone) => (sctxDone' = sctxDone /\ wpc' = wpc)

\* C19 (progress-indicator window): the two parts above.
C19_IndicatorWindow == []C19_Window /\ [][C19_CancelSparesWorkers]_vars

\* The indicator stopped by an external cancellation while a request is in
\* flight and before Run's own cancel.
C19_Witness ==
    /\ ctxDone /\ ~sctxDone
    /\ spinner = "stopped"
    /\ C = 2
    /\ wpc[0] = "flight" /\ wpc[1] = "done" /\ wi[1] < wn[1]

\* The requests worker w began with ctx already cancelled: those whose result
\* it has pushed and the one under way.
LateOf(w) ==
    Len(SelectSeq(ResultsOf(w), LAMBDA r : r.late))
       + (IF w \in InFlight /\ wres[w].late THEN 1 ELSE 0)

\* C20, in every state: a worker has begun at most one request after ctx was
\* cancelled, so all workers together at most C; a worker that has pushed the
\* result of such a request begins no other; a worker at its gate with a tick
\* waiting can take it, cancelled or not.
C20_AtMostOneLate ==
    /\ \A w \in Workers : LateOf(w) <= 1
    /\ SumTo([w \in Workers |-> LateOf(w)], C - 1) <= C
    /\ \A w \in Workers : LateOf(w) = 0 \/ w < C
    /\ \A w \in Workers :
          (LateOf(w) = 1 /\ w \notin InFlight) =>
              wpc[w] \in {"loop", "exit", "done"}
    /\ \A w \in Workers :
          (wpc[w] = "gate" /\ throttle[w] >= 1) => ENABLED runWorker_Gate(w)

\* C20, over every step: the gate is not a cancellation point: a worker
\* leaves its gate only to call makeRequest, and leaves that call only with the
\* request begun, also when ctx was cancelled while it waited; a worker that
\* has pushed a result begun after the cancellation leaves its loop check only
\* to return.
C20_GateIsNoCheck ==
    \A w \in Workers :
        /\ (wpc[w] = "gate" /\ wpc'[w] # "gate") => wpc'[w] = "call"
        /\ (wpc[w] = "call" /\ wpc'[w] # "call") =>
              (wpc'[w] = "flight" /\ wres'[w].late = ctxDone)
        /\ (wpc[w] = "loop" /\ LateOf(w) = 1 /\ wpc'[w] # "loop") =>
              wpc'[w] = "exit"

\* C20 (bounded overshoot after cancellation): the two parts above.
C20_BoundedOvershoot == []C20_AtMostOneLate /\ [][C20_GateIsNoCheck]_vars

\* Both workers of a rate-limited run have pushed the result of a request
\* begun after the cancellation and have returned, one with a request left.
C20_Witness ==
    /\ C = 2 /\ QPS > 0 /\ ctxDone
    /\ LateOf(0) = 1 /\ LateOf(1) = 1
    /\ InFlight = {}
    /\ wi[1] = 1 /\ wn[1] = 2
    /\ Returned(0) /\ Returned(1)

====
